---- MODULE Spec2Model ----
(***************************************************************************)
(* State-machine model of the sales and ledger engine of                   *)
(* panaderia-el-trigal: DBService (services/db.ts) running against the     *)
(* Supabase tables products, clients, sales and suspended_sales, and the   *)
(* SellerView handlers that call it.                                       *)
(*                                                                         *)
(* Every `await supabase...` is one step: the remote store executes one    *)
(* statement atomically, and between two statements of a call any other    *)
(* terminal's statements may run.  Money and quantities are integers       *)
(* (whole currency units); floating-point rounding is not modelled.        *)
(***************************************************************************)
EXTENDS Integers, Sequences, FiniteSets, TLC

VARIABLES
    products,   \* table products:  id -> [stock]
    clients,    \* table clients:   id -> [name, businessName, debt]
    sales,      \* table sales:     set of Sale rows
    calls,      \* in-flight / finished DBService calls, one record per call slot
    faults,     \* number of store statements that have returned an error so far
    reader,     \* one AdminDashboard.loadData in progress: what each select returned
    suspended,  \* table suspended_sales: id -> [id, items]
    ui,         \* SellerView state of each terminal: cart, suspendedSales, handler position
    clock,      \* Date.now()
    delivered   \* history: how often the items of each held sale were put into a cart

coordVars == <<products, clients, sales, calls, faults>>
holdVars  == <<suspended, ui, clock, delivered>>
vars      == <<products, clients, sales, calls, faults, reader, suspended, ui, clock,
               delivered>>

----------------------------------------------------------------------------
(* Bounds of the model *)

NumCalls   == 2     \* DBService calls issued in one behaviour of Spec
MaxQty     == 2     \* largest quantity of one product in one sale
MaxFaults  == 1     \* store statements that may fail in one behaviour
MaxCartQty == 2     \* largest quantity of one product in a cart
MaxClock   == 2     \* Date.now() ranges over 1..MaxClock
MaxPay     == 3     \* largest payment amount
StartStock == 3     \* stock of every product in the initial state
StartDebt  == 2     \* debt of client c1 in the initial state
RaceCalls  == 3     \* concurrent createRetailSale calls of SpecOversell
RaceStock  == 5     \* stock of the contended product in SpecOversell

Calls      == 1..NumCalls
Terminals  == {"t1", "t2"}
Tables     == {"products", "clients", "sales"}
ProductIds == {"p1", "p2"}
ClientIds  == {"c1", "c2"}
ProdOrder  == <<"p1", "p2">>
NoClient   == [name |-> "", businessName |-> "", debt |-> 0, found |-> FALSE]

\* Prices the callers copy into the sale items (Product.priceRetail / priceWholesale)
PriceRetail(p)    == IF p = "p1" THEN 2 ELSE 3
PriceWholesale(p) == IF p = "p1" THEN 1 ELSE 2

Max(a, b) == IF a >= b THEN a ELSE b

----------------------------------------------------------------------------
(* Pure helpers *)

\* items.reduce((sum, item) => sum + item.subtotal, 0)
RECURSIVE SumSubtotals(_)
SumSubtotals(items) ==
    IF items = <<>> THEN 0
    ELSE items[1].subtotal + SumSubtotals(Tail(items))

\* cart.map(...) of handleCheckout / getProposedItems(): one SaleItem per
\* product whose quantity is > 0, subtotal = price * quantity
RECURSIVE BuildItems(_, _, _)
BuildItems(order, qs, retail) ==
    IF order = <<>> THEN <<>>
    ELSE LET p     == order[1]
             price == IF retail THEN PriceRetail(p) ELSE PriceWholesale(p)
             rest  == BuildItems(Tail(order), qs, retail)
         IN  IF qs[p] > 0
             THEN <<[productId |-> p, quantity |-> qs[p],
                     unitPrice |-> price, subtotal |-> price * qs[p]]>> \o rest
             ELSE rest

Quantities == [ProductIds -> 0..MaxQty]

\* crypto.randomUUID(): a fresh id per call; the call slot is that fresh id
generateId(k) == k

\* selectedSale of SalesAnalytics before a sale is picked (null)
NoSale == [id |-> 0, type |-> "", items |-> <<>>, totalAmount |-> 0,
           clientId |-> "", clientName |-> ""]

IdleCall == [op |-> "idle", pc |-> "idle", saleId |-> 0, items |-> <<>>,
             totalAmount |-> 0, clientId |-> "", amount |-> 0,
             client |-> NoClient, i |-> 0, prod |-> -1, hasProd |-> FALSE,
             outcome |-> "none",
             sel |-> NoSale,      \* selectedSale of an edit session
             \* history of the call, read by the properties only
             charged |-> FALSE,   \* its debt update reached the client row
             decs |-> 0,          \* number of its stock updates that reached a row
             retryOf |-> 0]       \* slot of the call it re-submits, 0 if none

InitialDebt(c) == IF c = "c1" THEN StartDebt ELSE 0

InitClients ==
    [c \in ClientIds |->
        [name |-> c, businessName |-> IF c = "c1" THEN "B1" ELSE "",
         debt |-> InitialDebt(c)]]

\* AdminDashboard before its first loadData: nothing read yet
IdleReader == [order |-> <<>>, sales |-> {}, debt |-> [c \in {} |-> 0],
               stock |-> [p \in {} |-> 0]]

\* SellerView after mount: empty cart, no held sale listed, no handler running
IdleUi == [cart |-> <<>>, suspendedSales |-> [n \in {} |-> <<>>],
           pc |-> "idle", arg |-> [id |-> 0, items |-> <<>>],
           lastId |-> 0]     \* Date.now() of this terminal's latest handleSuspendSale

InitRest ==
    /\ reader    = IdleReader
    /\ suspended = [n \in {} |-> <<>>]
    /\ ui        = [t \in Terminals |-> IdleUi]
    /\ clock     = 1
    /\ delivered = [n \in 1..MaxClock |-> 0]

Init ==
    /\ products = [p \in ProductIds |-> [stock |-> StartStock]]
    /\ clients  = InitClients
    /\ sales    = {}
    /\ calls    = [k \in Calls |-> IdleCall]
    /\ faults   = 0
    /\ InitRest

----------------------------------------------------------------------------
(* Store statements and their failures *)

\* A store statement may return an error while the fault budget lasts
FailChoices == IF faults < MaxFaults THEN {FALSE, TRUE} ELSE {FALSE}

Fault(err) == faults' = IF err THEN faults + 1 ELSE faults

\* registerClientPayment clearing the debt whatever the amount: the variant
\* that C20_PaymentEffect must reject
NewDebtCleared(debt, amount) == 0

\* registerClientPayment with the clamp at zero forgotten: the variant that
\* C7_DebtNeverNegative must reject
NewDebtUnclamped(debt, amount) == debt - amount

\* Math.max(0, client.debt - amount)
NewDebtAfterPayment(debt, amount) == Max(0, debt - amount)

\* createDispatchSale charging the total on top of a charge already made: the
\* variant that C18_DispatchEffect must reject
ChargedDebtTwice(debt, totalAmount) == debt + totalAmount + totalAmount

\* client.debt + totalAmount
ChargedDebt(debt, totalAmount) == debt + totalAmount

\* decrementStock taking one unit whatever the quantity: the variant that
\* C19_RetailEffect must reject
NewStockLessOne(stock, quantity) == stock - 1

\* prod.stock - quantity
NewStock(stock, quantity) == stock - quantity

\* createDispatchSale snapshotting the contact name only: the variant that
\* C25_ClientNameSnapshot must reject
SaleRowContactName(k) ==
    LET c == calls[k] IN
    [id |-> c.saleId, type |-> IF c.op = "retail" THEN "pos" ELSE "dispatch",
     items |-> c.items, totalAmount |-> c.totalAmount,
     clientId |-> IF c.op = "dispatch" THEN c.clientId ELSE "",
     clientName |-> IF c.op = "dispatch" THEN c.client.name ELSE ""]

\* The Sale row built by createRetailSale / createDispatchSale
SaleRow(k) ==
    LET c == calls[k] IN
    [id |-> c.saleId, type |-> IF c.op = "retail" THEN "pos" ELSE "dispatch",
     items |-> c.items, totalAmount |-> c.totalAmount,
     clientId |-> IF c.op = "dispatch" THEN c.clientId ELSE "",
     clientName |-> IF c.op = "dispatch"
                    THEN (IF c.client.businessName # "" THEN c.client.businessName
                                                       ELSE c.client.name)
                    ELSE ""]

Finish(k, how) ==
    [calls[k] EXCEPT !.pc = "done", !.outcome = how, !.i = 0,
                     !.prod = -1, !.hasProd = FALSE]

\* Position of the loop `for (const item of items)` after the item at index i
NextItem(k) ==
    LET c == calls[k] IN
    IF c.i + 1 > Len(c.items)
    THEN Finish(k, "ok")
    ELSE [c EXCEPT !.pc = "stockSelect", !.i = c.i + 1, !.prod = -1, !.hasProd = FALSE]

\* Entry of the stock loop (i = 0 before the first item)
EnterLoop(k, c) ==
    IF Len(c.items) = 0
    THEN [c EXCEPT !.pc = "done", !.outcome = "ok"]
    ELSE [c EXCEPT !.pc = "stockSelect", !.i = 1]

\* Call slots are taken in order: slot k starts once every lower slot has started
CanStart(k) ==
    /\ calls[k].op = "idle"
    /\ \A j \in DOMAIN calls : j < k => calls[j].op # "idle"

----------------------------------------------------------------------------
(* createRetailSale(items, sellerId) *)

StartRetail(k, qs) ==
    /\ CanStart(k)
    /\ LET items == BuildItems(ProdOrder, qs, TRUE) IN
       calls' = [calls EXCEPT ![k] =
                   [IdleCall EXCEPT !.op = "retail", !.pc = "insert",
                                    !.saleId = generateId(k), !.items = items,
                                    !.totalAmount = SumSubtotals(items)]]
    /\ UNCHANGED <<products, clients, sales, faults, reader, holdVars>>

\* The caller submits the sale of the finished call j once more, with the same
\* arguments (a second click on "Cobrar" / "Confirmar" after an uncertain outcome).
\* createRetailSale / createDispatchSale take no sale id: generateId() runs again.
StartRetry(k, j) ==
    /\ CanStart(k)
    /\ j \in DOMAIN calls /\ j # k
    /\ calls[j].op \in {"retail", "dispatch"} /\ calls[j].pc = "done"
    /\ calls' = [calls EXCEPT ![k] =
                   [IdleCall EXCEPT !.op = calls[j].op,
                                    !.pc = IF calls[j].op = "retail" THEN "insert"
                                                                     ELSE "clientSelect",
                                    !.saleId = generateId(k), !.items = calls[j].items,
                                    !.totalAmount = SumSubtotals(calls[j].items),
                                    !.clientId = calls[j].clientId,
                                    !.retryOf = j]]
    /\ UNCHANGED <<products, clients, sales, faults, reader, holdVars>>

(* createDispatchSale(clientId, items, sellerId) *)

StartDispatch(k, cid, qs) ==
    /\ CanStart(k)
    /\ LET items == BuildItems(ProdOrder, qs, FALSE) IN
       calls' = [calls EXCEPT ![k] =
                   [IdleCall EXCEPT !.op = "dispatch", !.pc = "clientSelect",
                                    !.saleId = generateId(k), !.items = items,
                                    !.totalAmount = SumSubtotals(items),
                                    !.clientId = cid]]
    /\ UNCHANGED <<products, clients, sales, faults, reader, holdVars>>

\* createDispatchSale with the check `if (!client) throw` forgotten: the variant
\* that C12_UnknownClientRejected must reject
ClientSelectUnchecked(k) ==
    /\ calls[k].op = "dispatch" /\ calls[k].pc = "clientSelect"
    /\ \E err \in FailChoices :
         /\ Fault(err)
         /\ LET cid   == calls[k].clientId
                found == ~err /\ cid \in DOMAIN clients
            IN  calls' = [calls EXCEPT ![k] =
                   [@ EXCEPT !.pc = "insert",
                             !.client = IF found
                                        THEN [name |-> clients[cid].name,
                                              businessName |-> clients[cid].businessName,
                                              debt |-> clients[cid].debt,
                                              found |-> TRUE]
                                        ELSE NoClient]]
    /\ UNCHANGED <<products, clients, sales, reader, holdVars>>

\* select('name, businessName, debt').eq('id', clientId).single();
\* if (!client) throw new Error("Cliente no existe")
ClientSelect(k) ==
    /\ calls[k].op = "dispatch" /\ calls[k].pc = "clientSelect"
    /\ \E err \in FailChoices :
         /\ Fault(err)
         /\ LET cid   == calls[k].clientId
                found == ~err /\ cid \in DOMAIN clients
            IN  calls' = [calls EXCEPT ![k] =
                   IF found
                   THEN [@ EXCEPT !.pc = "insert",
                                  !.client = [name |-> clients[cid].name,
                                              businessName |-> clients[cid].businessName,
                                              debt |-> clients[cid].debt,
                                              found |-> TRUE]]
                   ELSE Finish(k, "threw: Cliente no existe")]
    /\ UNCHANGED <<products, clients, sales, reader, holdVars>>

\* the sale insert with `if (saleError) throw saleError` forgotten: the variant
\* that C27_InsertPrecedesEffects must reject
InsertSaleNoThrow(k) ==
    /\ calls[k].op \in {"retail", "dispatch"} /\ calls[k].pc = "insert"
    /\ \E err \in FailChoices :
         /\ Fault(err)
         /\ sales' = IF err THEN sales ELSE sales \cup {SaleRow(k)}
         /\ calls' = [calls EXCEPT ![k] =
                         IF calls[k].op = "dispatch"
                         THEN [@ EXCEPT !.pc = "debtUpdate"]
                         ELSE EnterLoop(k, @)]
    /\ UNCHANGED <<products, clients, reader, holdVars>>

\* supabase.from('sales').insert(sale); if (saleError) throw saleError
InsertSale(k) ==
    /\ calls[k].op \in {"retail", "dispatch"} /\ calls[k].pc = "insert"
    /\ \E err \in FailChoices :
         /\ Fault(err)
         /\ IF err
            THEN /\ calls' = [calls EXCEPT ![k] = Finish(k, "threw: saleError")]
                 /\ sales' = sales
            ELSE /\ sales' = sales \cup {SaleRow(k)}
                 /\ calls' = [calls EXCEPT ![k] =
                       IF calls[k].op = "dispatch"
                       THEN [@ EXCEPT !.pc = "debtUpdate"]
                       ELSE EnterLoop(k, @)]
    /\ UNCHANGED <<products, clients, reader, holdVars>>

\* update({ debt: client.debt + totalAmount }).eq('id', clientId); result not inspected
DebtUpdate(k) ==
    /\ calls[k].op = "dispatch" /\ calls[k].pc = "debtUpdate"
    /\ \E err \in FailChoices :
         /\ Fault(err)
         /\ LET cid == calls[k].clientId IN
            clients' = IF ~err /\ cid \in DOMAIN clients
                       THEN [clients EXCEPT ![cid].debt =
                               ChargedDebt(calls[k].client.debt, calls[k].totalAmount)]
                       ELSE clients
         /\ calls' = [calls EXCEPT ![k] =
                       EnterLoop(k, [@ EXCEPT !.charged =
                                       ~err /\ calls[k].clientId \in DOMAIN clients])]
    /\ UNCHANGED <<products, sales, reader, holdVars>>

(* decrementStock(productId, quantity) *)

\* select('stock').eq('id', productId).single(); if (prod) ...
StockSelect(k) ==
    /\ calls[k].op \in {"retail", "dispatch"} /\ calls[k].pc = "stockSelect"
    /\ \E err \in FailChoices :
         /\ Fault(err)
         /\ LET p == calls[k].items[calls[k].i].productId IN
            calls' = [calls EXCEPT ![k] =
                        IF ~err /\ p \in DOMAIN products
                        THEN [@ EXCEPT !.pc = "stockUpdate", !.hasProd = TRUE,
                                       !.prod = products[p].stock]
                        ELSE NextItem(k)]
    /\ UNCHANGED <<products, clients, sales, reader, holdVars>>

\* update({ stock: prod.stock - quantity }).eq('id', productId); result not inspected
StockUpdate(k) ==
    /\ calls[k].op \in {"retail", "dispatch"} /\ calls[k].pc = "stockUpdate"
    /\ \E err \in FailChoices :
         /\ Fault(err)
         /\ LET item == calls[k].items[calls[k].i]
                p    == item.productId
            IN  products' = IF ~err /\ p \in DOMAIN products
                            THEN [products EXCEPT ![p].stock =
                                    NewStock(calls[k].prod, item.quantity)]
                            ELSE products
         /\ LET hit == ~err /\ calls[k].items[calls[k].i].productId \in DOMAIN products
            IN  calls' = [calls EXCEPT ![k] =
                            [NextItem(k) EXCEPT !.decs = IF hit THEN @ + 1 ELSE @]]
    /\ UNCHANGED <<clients, sales, reader, holdVars>>

----------------------------------------------------------------------------
(* registerClientPayment(clientId, amount) *)

StartPayment(k, cid, amount) ==
    /\ CanStart(k)
    /\ calls' = [calls EXCEPT ![k] =
                   [IdleCall EXCEPT !.op = "payment", !.pc = "paySelect",
                                    !.clientId = cid, !.amount = amount]]
    /\ UNCHANGED <<products, clients, sales, faults, reader, holdVars>>

\* select('debt').eq('id', clientId).single(); if (!client) throw
PaySelect(k) ==
    /\ calls[k].op = "payment" /\ calls[k].pc = "paySelect"
    /\ \E err \in FailChoices :
         /\ Fault(err)
         /\ LET cid == calls[k].clientId IN
            calls' = [calls EXCEPT ![k] =
                        IF ~err /\ cid \in DOMAIN clients
                        THEN [@ EXCEPT !.pc = "payUpdate",
                                       !.client = [NoClient EXCEPT
                                                     !.debt = clients[cid].debt,
                                                     !.found = TRUE]]
                        ELSE Finish(k, "threw: Cliente no encontrado")]
    /\ UNCHANGED <<products, clients, sales, reader, holdVars>>

\* update({ debt: newDebt }).eq('id', clientId); if (error) throw error
PayUpdate(k) ==
    /\ calls[k].op = "payment" /\ calls[k].pc = "payUpdate"
    /\ \E err \in FailChoices :
         /\ Fault(err)
         /\ LET cid == calls[k].clientId IN
            IF err
            THEN /\ clients' = clients
                 /\ calls' = [calls EXCEPT ![k] = Finish(k, "threw: error")]
            ELSE /\ clients' = IF cid \in DOMAIN clients
                               THEN [clients EXCEPT ![cid].debt =
                                       NewDebtAfterPayment(calls[k].client.debt,
                                                           calls[k].amount)]
                               ELSE clients
                 /\ calls' = [calls EXCEPT ![k] = Finish(k, "ok")]
    /\ UNCHANGED <<products, sales, reader, holdVars>>

----------------------------------------------------------------------------
(* deleteProduct(id): supabase.from('products').delete().eq('id', id) *)

DeleteProduct(p) ==
    /\ p \in DOMAIN products
    /\ products' = [q \in DOMAIN products \ {p} |-> products[q]]
    /\ UNCHANGED <<clients, sales, calls, faults, reader, holdVars>>

----------------------------------------------------------------------------
(* AdminDashboard.loadData: Promise.all([getProducts(), getClients(), getSales(),
   getSettings()]).  The selects are separate statements that the store may
   serve in any order; a failed select yields `data || []`. *)

CanRead(table) ==
    \A n \in DOMAIN reader.order : reader.order[n] # table

\* getProducts(): supabase.from('products').select('*')
ReadProducts ==
    /\ CanRead("products")
    /\ \E err \in FailChoices :
         /\ Fault(err)
         /\ reader' = [reader EXCEPT
                         !.order = Append(@, "products"),
                         !.stock = IF err THEN [p \in {} |-> 0]
                                   ELSE [p \in DOMAIN products |-> products[p].stock]]
    /\ UNCHANGED <<products, clients, sales, calls, holdVars>>

\* getClients(): supabase.from('clients').select('*')
ReadClients ==
    /\ CanRead("clients")
    /\ \E err \in FailChoices :
         /\ Fault(err)
         /\ reader' = [reader EXCEPT
                         !.order = Append(@, "clients"),
                         !.debt = IF err THEN [c \in {} |-> 0]
                                  ELSE [c \in DOMAIN clients |-> clients[c].debt]]
    /\ UNCHANGED <<products, clients, sales, calls, holdVars>>

\* getSales(): supabase.from('sales').select('*').order('date', ...)
ReadSales ==
    /\ CanRead("sales")
    /\ \E err \in FailChoices :
         /\ Fault(err)
         /\ reader' = [reader EXCEPT
                         !.order = Append(@, "sales"),
                         !.sales = IF err THEN {} ELSE { x.id : x \in sales }]
    /\ UNCHANGED <<products, clients, sales, calls, holdVars>>

----------------------------------------------------------------------------

Next ==
    \/ \E k \in DOMAIN calls, qs \in Quantities : StartRetail(k, qs)
    \/ \E k \in DOMAIN calls, cid \in ClientIds, qs \in Quantities : StartDispatch(k, cid, qs)
    \/ \E k \in DOMAIN calls, cid \in ClientIds, a \in 1..MaxPay : StartPayment(k, cid, a)
    \/ \E k \in DOMAIN calls, j \in DOMAIN calls : StartRetry(k, j)
    \/ \E k \in DOMAIN calls : ClientSelect(k)
    \/ \E k \in DOMAIN calls : InsertSale(k)
    \/ \E k \in DOMAIN calls : DebtUpdate(k)
    \/ \E k \in DOMAIN calls : StockSelect(k)
    \/ \E k \in DOMAIN calls : StockUpdate(k)
    \/ \E k \in DOMAIN calls : PaySelect(k)
    \/ \E k \in DOMAIN calls : PayUpdate(k)
    \/ \E p \in ProductIds : DeleteProduct(p)

Spec == Init /\ [][Next]_vars

----------------------------------------------------------------------------
(* The client ledger alone: dispatch sales (of product p1) and payments on the
   clients, concurrently and with failing statements. *)

DebtQuantities == { qs \in Quantities : qs["p2"] = 0 }

NextDebt ==
    \/ \E k \in DOMAIN calls, cid \in ClientIds, qs \in DebtQuantities :
          StartDispatch(k, cid, qs)
    \/ \E k \in DOMAIN calls, cid \in ClientIds, a \in 1..MaxPay : StartPayment(k, cid, a)
    \/ \E k \in DOMAIN calls : ClientSelect(k)
    \/ \E k \in DOMAIN calls : InsertSale(k)
    \/ \E k \in DOMAIN calls : DebtUpdate(k)
    \/ \E k \in DOMAIN calls : StockSelect(k)
    \/ \E k \in DOMAIN calls : StockUpdate(k)
    \/ \E k \in DOMAIN calls : PaySelect(k)
    \/ \E k \in DOMAIN calls : PayUpdate(k)

SpecDebt == Init /\ [][NextDebt]_vars

----------------------------------------------------------------------------
(* The client ledger called with the id of client c1 and with an id that
   matches no row of the clients table. *)

UnknownClient == "c9"
AnyClientIds  == {"c1", UnknownClient}

NextUnknown ==
    \/ \E k \in DOMAIN calls, cid \in AnyClientIds, qs \in DebtQuantities :
          StartDispatch(k, cid, qs)
    \/ \E k \in DOMAIN calls, cid \in AnyClientIds, a \in 1..MaxPay : StartPayment(k, cid, a)
    \/ \E k \in DOMAIN calls : ClientSelect(k)
    \/ \E k \in DOMAIN calls : InsertSale(k)
    \/ \E k \in DOMAIN calls : DebtUpdate(k)
    \/ \E k \in DOMAIN calls : StockSelect(k)
    \/ \E k \in DOMAIN calls : StockUpdate(k)
    \/ \E k \in DOMAIN calls : PaySelect(k)
    \/ \E k \in DOMAIN calls : PayUpdate(k)

SpecUnknown == Init /\ [][NextUnknown]_vars

----------------------------------------------------------------------------
(* registerClientPayment(clientId, amount) called with any number as amount:
   the method takes a `number` and is called with parseFloat of the text of
   the payment field. *)

AnyAmounts == (0 - MaxPay)..MaxPay

NextAmount ==
    \/ \E k \in DOMAIN calls, cid \in ClientIds, a \in AnyAmounts : StartPayment(k, cid, a)
    \/ \E k \in DOMAIN calls : PaySelect(k)
    \/ \E k \in DOMAIN calls : PayUpdate(k)

SpecAmount == Init /\ [][NextAmount]_vars

----------------------------------------------------------------------------
(* SalesAnalytics: editing a sale of the ledger.  An edit session occupies a
   call slot: sel is selectedSale, items is editItems. *)

AmendCalls == 3     \* call slots of SpecAmend: sales created and edit sessions

\* openEditModal(sale): the sale is one of the list the dashboard loaded;
\* editItems is a deep copy of its items
OpenEditModal(k, s) ==
    /\ CanStart(k)
    /\ s \in sales
    /\ calls' = [calls EXCEPT ![k] =
                   [IdleCall EXCEPT !.op = "amend", !.pc = "editing",
                                    !.saleId = s.id, !.sel = s, !.items = s.items]]
    /\ UNCHANGED <<products, clients, sales, faults, reader, holdVars>>

\* updateEditItemQty(idx, delta): newQty = Math.max(0, quantity + delta),
\* subtotal = newQty * unitPrice
ItemsAfterEdit(items, idx, delta) ==
    LET newQty == Max(0, items[idx].quantity + delta) IN
    [items EXCEPT ![idx] = [@ EXCEPT !.quantity = newQty,
                                     !.subtotal = newQty * items[idx].unitPrice]]

UpdateEditItemQty(k, idx, delta) ==
    /\ calls[k].op = "amend" /\ calls[k].pc = "editing"
    /\ idx \in DOMAIN calls[k].items
    /\ calls[k].items[idx].quantity + delta <= MaxQty
    /\ calls' = [calls EXCEPT ![k].items = ItemsAfterEdit(@, idx, delta)]
    /\ UNCHANGED <<products, clients, sales, faults, reader, holdVars>>

\* saveEditedSale with the total left as it was: the variant that
\* C15_TotalIsSumOfSubtotals must reject
EditedSaleStaleTotal(sel, editItems) ==
    [sel EXCEPT !.items = SelectSeq(editItems, LAMBDA i : i.quantity > 0)]

\* updatedSale = { ...selectedSale, items: filteredItems, totalAmount: newTotal }
EditedSale(sel, editItems) ==
    LET filteredItems == SelectSeq(editItems, LAMBDA i : i.quantity > 0) IN
    [sel EXCEPT !.items = filteredItems, !.totalAmount = SumSubtotals(filteredItems)]

\* updateSale with the `.eq('id', ...)` filter forgotten: the variant that
\* C17_AmendFrame must reject
SalesAfterUpdateAll(S, row) == { row : s \in S }

\* supabase.from('sales').update(updatedSale).eq('id', updatedSale.id)
SalesAfterUpdate(S, row) == { IF s.id = row.id THEN row ELSE s : s \in S }

\* saveEditedSale: await db.updateSale(updatedSale); if (error) throw error
SaveEditedSale(k) ==
    /\ calls[k].op = "amend" /\ calls[k].pc = "editing"
    /\ \E err \in FailChoices :
         /\ Fault(err)
         /\ IF err
            THEN /\ sales' = sales
                 /\ calls' = [calls EXCEPT ![k] = Finish(k, "threw: error")]
            ELSE /\ sales' = SalesAfterUpdate(sales, EditedSale(calls[k].sel, calls[k].items))
                 /\ calls' = [calls EXCEPT ![k] = Finish(k, "ok")]
    /\ UNCHANGED <<products, clients, reader, holdVars>>

InitAmend ==
    /\ products = [p \in ProductIds |-> [stock |-> StartStock]]
    /\ clients  = InitClients
    /\ sales    = {}
    /\ calls    = [k \in 1..AmendCalls |-> IdleCall]
    /\ faults   = 0
    /\ InitRest

\* the sales created in SpecAmend: MaxQty units of p1 and one unit of p2
AmendQuantities == { qs \in Quantities : qs["p1"] = MaxQty /\ qs["p2"] = 1 }

NextAmend ==
    \/ \E k \in DOMAIN calls, qs \in AmendQuantities : StartRetail(k, qs)
    \/ \E k \in DOMAIN calls, qs \in AmendQuantities : StartDispatch(k, "c1", qs)
    \/ \E k \in DOMAIN calls : ClientSelect(k)
    \/ \E k \in DOMAIN calls : InsertSale(k)
    \/ \E k \in DOMAIN calls : DebtUpdate(k)
    \/ \E k \in DOMAIN calls : StockSelect(k)
    \/ \E k \in DOMAIN calls : StockUpdate(k)
    \/ \E k \in DOMAIN calls, s \in sales : OpenEditModal(k, s)
    \/ \E k \in DOMAIN calls, idx \in 1..Cardinality(ProductIds), d \in {-1, 1} :
          UpdateEditItemQty(k, idx, d)
    \/ \E k \in DOMAIN calls : SaveEditedSale(k)

SpecAmend == InitAmend /\ [][NextAmend]_vars

----------------------------------------------------------------------------
(* AdminDashboard: the client edit form.  An open form occupies a call slot:
   client is editingClient. *)

\* onEditClient(selectedClient): editingClient is the client as the dashboard
\* loaded it
OpenClientForm(k, cid) ==
    /\ CanStart(k)
    /\ cid \in DOMAIN clients
    /\ calls' = [calls EXCEPT ![k] =
                   [IdleCall EXCEPT !.op = "saveClient", !.pc = "form",
                                    !.clientId = cid,
                                    !.client = [name |-> clients[cid].name,
                                                businessName |-> clients[cid].businessName,
                                                debt |-> clients[cid].debt,
                                                found |-> TRUE]]]
    /\ UNCHANGED <<products, clients, sales, faults, reader, holdVars>>

\* the business-name field: setEditingClient({...editingClient, businessName})
SetFormName(k, bn) ==
    /\ calls[k].op = "saveClient" /\ calls[k].pc = "form"
    /\ calls[k].client.businessName # bn
    /\ calls' = [calls EXCEPT ![k].client.businessName = bn]
    /\ UNCHANGED <<products, clients, sales, faults, reader, holdVars>>

\* the debt field: setEditingClient({...editingClient, debt: parseFloat(value)})
SetFormDebt(k, d) ==
    /\ calls[k].op = "saveClient" /\ calls[k].pc = "form"
    /\ calls[k].client.debt # d
    /\ calls' = [calls EXCEPT ![k].client.debt = d]
    /\ UNCHANGED <<products, clients, sales, faults, reader, holdVars>>

\* handleSaveClient: await db.updateClient(client), an upsert of the whole row;
\* if (error) throw error
HandleSaveClient(k) ==
    /\ calls[k].op = "saveClient" /\ calls[k].pc = "form"
    /\ \E err \in FailChoices :
         /\ Fault(err)
         /\ IF err
            THEN /\ clients' = clients
                 /\ calls' = [calls EXCEPT ![k] = Finish(k, "threw: error")]
            ELSE /\ clients' = [c \in DOMAIN clients \cup {calls[k].clientId} |->
                                  IF c = calls[k].clientId
                                  THEN [name |-> calls[k].client.name,
                                        businessName |-> calls[k].client.businessName,
                                        debt |-> calls[k].client.debt]
                                  ELSE clients[c]]
                 /\ calls' = [calls EXCEPT ![k] = Finish(k, "ok")]
    /\ UNCHANGED <<products, sales, reader, holdVars>>

FormNames == {"B1", "B2"}
FormDebts == 0..StartDebt

NextClient ==
    \/ \E k \in DOMAIN calls, cid \in ClientIds, qs \in DebtQuantities :
          StartDispatch(k, cid, qs)
    \/ \E k \in DOMAIN calls, cid \in ClientIds, a \in 1..MaxPay : StartPayment(k, cid, a)
    \/ \E k \in DOMAIN calls : ClientSelect(k)
    \/ \E k \in DOMAIN calls : InsertSale(k)
    \/ \E k \in DOMAIN calls : DebtUpdate(k)
    \/ \E k \in DOMAIN calls : StockSelect(k)
    \/ \E k \in DOMAIN calls : StockUpdate(k)
    \/ \E k \in DOMAIN calls : PaySelect(k)
    \/ \E k \in DOMAIN calls : PayUpdate(k)
    \/ \E k \in DOMAIN calls, cid \in ClientIds : OpenClientForm(k, cid)
    \/ \E k \in DOMAIN calls, bn \in FormNames : SetFormName(k, bn)
    \/ \E k \in DOMAIN calls, d \in FormDebts : SetFormDebt(k, d)
    \/ \E k \in DOMAIN calls : HandleSaveClient(k)

SpecClient == Init /\ [][NextClient]_vars

----------------------------------------------------------------------------
(* The calls run one after another, none interfering with another: a call
   starts when no other call is in flight.  createRetailSale is given any item
   list, also one in which two items reference the same product. *)

MaxItems == 2     \* longest item list handed to createRetailSale in SpecSeq

SaleItems ==
    { [productId |-> p, quantity |-> q, unitPrice |-> PriceRetail(p),
       subtotal |-> PriceRetail(p) * q] : p \in ProductIds, q \in 1..MaxQty }

ItemLists == UNION { [1..n -> SaleItems] : n \in 0..MaxItems }

\* createRetailSale(items, sellerId) on a given item list
StartRetailOf(k, items) ==
    /\ CanStart(k)
    /\ calls' = [calls EXCEPT ![k] =
                   [IdleCall EXCEPT !.op = "retail", !.pc = "insert",
                                    !.saleId = generateId(k), !.items = items,
                                    !.totalAmount = SumSubtotals(items)]]
    /\ UNCHANGED <<products, clients, sales, faults, reader, holdVars>>

\* no call is in flight
Quiet == \A j \in DOMAIN calls : calls[j].pc \in {"idle", "done"}

NextSeq ==
    \/ \E k \in DOMAIN calls, items \in ItemLists : Quiet /\ StartRetailOf(k, items)
    \/ \E k \in DOMAIN calls, cid \in ClientIds, qs \in Quantities :
          Quiet /\ StartDispatch(k, cid, qs)
    \/ \E k \in DOMAIN calls, cid \in ClientIds, a \in 1..MaxPay :
          Quiet /\ StartPayment(k, cid, a)
    \/ \E k \in DOMAIN calls : ClientSelect(k)
    \/ \E k \in DOMAIN calls : InsertSale(k)
    \/ \E k \in DOMAIN calls : DebtUpdate(k)
    \/ \E k \in DOMAIN calls : StockSelect(k)
    \/ \E k \in DOMAIN calls : StockUpdate(k)
    \/ \E k \in DOMAIN calls : PaySelect(k)
    \/ \E k \in DOMAIN calls : PayUpdate(k)

SpecSeq == Init /\ [][NextSeq]_vars

----------------------------------------------------------------------------
(* The oversell scenario: RaceCalls terminals sell MaxQty units of the same
   product p1, of which RaceStock are left, at the same time.  No store
   statement fails here (the fault budget is spent from the start). *)

RaceQuantities == [p \in ProductIds |-> IF p = "p1" THEN MaxQty ELSE 0]

InitOversell ==
    /\ products = [p \in ProductIds |-> [stock |-> RaceStock]]
    /\ clients  = InitClients
    /\ sales    = {}
    /\ calls    = [k \in 1..RaceCalls |-> IdleCall]
    /\ faults   = MaxFaults
    /\ InitRest

NextOversell ==
    \/ \E k \in DOMAIN calls : StartRetail(k, RaceQuantities)
    \/ \E k \in DOMAIN calls : InsertSale(k)
    \/ \E k \in DOMAIN calls : StockSelect(k)
    \/ \E k \in DOMAIN calls : StockUpdate(k)

SpecOversell == InitOversell /\ [][NextOversell]_vars

----------------------------------------------------------------------------
(* SellerView: the cart and the held ("suspended") sales of each terminal.
   A seller starts a hold, resume or discard when the previous one has
   finished (pc = "idle"); the cart buttons and the 5 s loadData interval
   run at any time. *)

InCart(cart, p) == \E n \in DOMAIN cart : cart[n].id = p

\* addToCart(product): quantity + 1 of the existing entry, else a new entry of 1
CartAfterAdd(cart, p) ==
    IF InCart(cart, p)
    THEN [n \in DOMAIN cart |->
            IF cart[n].id = p THEN [cart[n] EXCEPT !.quantity = @ + 1] ELSE cart[n]]
    ELSE Append(cart, [id |-> p, quantity |-> 1])

\* updateCartQty without its .filter(item => item.quantity > 0): the variant
\* that C30_CartEntriesDistinctPositive must reject
CartAfterUpdateUnfiltered(cart, p, delta) ==
    [n \in DOMAIN cart |->
        IF cart[n].id = p
        THEN [cart[n] EXCEPT !.quantity = Max(0, @ + delta)]
        ELSE cart[n]]

\* updateCartQty(id, delta): Math.max(0, quantity + delta), entries of 0 filtered out
CartAfterUpdate(cart, p, delta) ==
    LET mapped == [n \in DOMAIN cart |->
                     IF cart[n].id = p
                     THEN [cart[n] EXCEPT !.quantity = Max(0, @ + delta)]
                     ELSE cart[n]]
    IN  SelectSeq(mapped, LAMBDA item : item.quantity > 0)

CartQty(cart, p) ==
    IF InCart(cart, p)
    THEN (CHOOSE item \in { cart[n] : n \in DOMAIN cart } : item.id = p).quantity
    ELSE 0

AddToCart(t, p) ==
    /\ CartQty(ui[t].cart, p) < MaxCartQty
    /\ ui' = [ui EXCEPT ![t].cart = CartAfterAdd(@, p)]
    /\ UNCHANGED <<coordVars, reader, suspended, clock, delivered>>

UpdateCartQty(t, p, delta) ==
    /\ InCart(ui[t].cart, p)
    /\ CartQty(ui[t].cart, p) + delta <= MaxCartQty
    /\ ui' = [ui EXCEPT ![t].cart = CartAfterUpdate(@, p, delta)]
    /\ UNCHANGED <<coordVars, reader, suspended, clock, delivered>>

\* Date.now() moves on
Tick ==
    /\ clock < MaxClock
    /\ clock' = clock + 1
    /\ UNCHANGED <<coordVars, reader, suspended, ui, delivered>>

\* loadData() of the 5 s interval: getSuspendedSales() -> setSuspendedSales
LoadData(t) ==
    /\ ui[t].suspendedSales # suspended
    /\ ui' = [ui EXCEPT ![t].suspendedSales = suspended]
    /\ UNCHANGED <<coordVars, reader, suspended, clock, delivered>>

(* handleSuspendSale *)

\* cart not empty, a reference name given: build the record, id = Date.now().
\* One terminal does not run the handler twice in the same millisecond (it
\* prompts for the reference name); two terminals can.
SuspendStart(t) ==
    /\ ui[t].pc = "idle"
    /\ ui[t].cart # <<>>
    /\ ui[t].lastId < clock
    /\ ui' = [ui EXCEPT ![t].pc = "suspendInsert", ![t].lastId = clock,
                        ![t].arg = [id |-> clock, items |-> ui[t].cart]]
    /\ UNCHANGED <<coordVars, reader, suspended, clock, delivered>>

\* addSuspendedSale reserving the held quantities in products.stock: the
\* variant that C23_HoldFrame must reject
SuspendInsertReserving(t) ==
    /\ ui[t].pc = "suspendInsert"
    /\ \E err \in FailChoices :
         /\ Fault(err)
         /\ LET id     == ui[t].arg.id
                stored == ~err /\ id \notin DOMAIN suspended
            IN  /\ suspended' = IF stored
                                THEN [n \in DOMAIN suspended \cup {id} |->
                                        IF n = id THEN ui[t].arg ELSE suspended[n]]
                                ELSE suspended
                /\ delivered' = IF stored THEN [delivered EXCEPT ![id] = 0]
                                ELSE delivered
                /\ products' = IF stored
                               THEN [p \in DOMAIN products |->
                                       [products[p] EXCEPT
                                          !.stock = @ - CartQty(ui[t].arg.items, p)]]
                               ELSE products
    /\ ui' = [ui EXCEPT ![t].pc = "reload", ![t].cart = <<>>]
    /\ UNCHANGED <<clients, sales, calls, reader, clock>>

\* await db.addSuspendedSale(suspended): the insert's error is not inspected;
\* then setCart([])
SuspendInsert(t) ==
    /\ ui[t].pc = "suspendInsert"
    /\ \E err \in FailChoices :
         /\ Fault(err)
         /\ LET id     == ui[t].arg.id
                stored == ~err /\ id \notin DOMAIN suspended
            IN  /\ suspended' = IF stored
                                THEN [n \in DOMAIN suspended \cup {id} |->
                                        IF n = id THEN ui[t].arg ELSE suspended[n]]
                                ELSE suspended
                \* a new held sale under this id: nothing of it delivered yet
                /\ delivered' = IF stored THEN [delivered EXCEPT ![id] = 0]
                                ELSE delivered
    /\ ui' = [ui EXCEPT ![t].pc = "reload", ![t].cart = <<>>]
    /\ UNCHANGED <<products, clients, sales, calls, reader, clock>>

\* await loadData() that ends handleSuspendSale, handleResumeSale and the discard
Reload(t) ==
    /\ ui[t].pc = "reload"
    /\ ui' = [ui EXCEPT ![t].pc = "idle", ![t].suspendedSales = suspended,
                        ![t].arg = IdleUi.arg]
    /\ UNCHANGED <<coordVars, reader, suspended, clock, delivered>>

(* handleResumeSale(suspended): the record is the one listed in this terminal *)

\* setCart(suspended.items), then the remove is issued.  When the cart is not
\* empty the seller is asked first; declining returns without any change.
ResumeStart(t, id) ==
    /\ ui[t].pc = "idle"
    /\ id \in DOMAIN ui[t].suspendedSales
    /\ ui' = [ui EXCEPT ![t].pc = "remove",
                        ![t].cart = ui[t].suspendedSales[id].items,
                        ![t].arg = [id |-> id, items |-> <<>>]]
    /\ delivered' = [delivered EXCEPT ![id] = @ + 1]
    /\ UNCHANGED <<coordVars, reader, suspended, clock>>

(* the trash button of a held sale: confirm, removeSuspendedSale, loadData *)
DiscardStart(t, id) ==
    /\ ui[t].pc = "idle"
    /\ id \in DOMAIN ui[t].suspendedSales
    /\ ui' = [ui EXCEPT ![t].pc = "remove", ![t].arg = [id |-> id, items |-> <<>>]]
    /\ UNCHANGED <<coordVars, reader, suspended, clock, delivered>>

\* await db.removeSuspendedSale(id): delete().eq('id', id), result not inspected
RemoveSuspended(t) ==
    /\ ui[t].pc = "remove"
    /\ \E err \in FailChoices :
         /\ Fault(err)
         /\ suspended' = IF err THEN suspended
                         ELSE [n \in DOMAIN suspended \ {ui[t].arg.id} |-> suspended[n]]
    /\ ui' = [ui EXCEPT ![t].pc = "reload"]
    /\ UNCHANGED <<products, clients, sales, calls, reader, clock, delivered>>

\* the products the sellers put into carts in SpecHold
HoldProducts == {"p1"}

NextHold ==
    \/ \E t \in Terminals, p \in HoldProducts : AddToCart(t, p)
    \/ \E t \in Terminals, p \in HoldProducts, d \in {-1, 1} : UpdateCartQty(t, p, d)
    \/ Tick
    \/ \E t \in Terminals : LoadData(t)
    \/ \E t \in Terminals : SuspendStart(t)
    \/ \E t \in Terminals : SuspendInsert(t)
    \/ \E t \in Terminals : Reload(t)
    \/ \E t \in Terminals, id \in 1..MaxClock : ResumeStart(t, id)
    \/ \E t \in Terminals, id \in 1..MaxClock : DiscardStart(t, id)
    \/ \E t \in Terminals : RemoveSuspended(t)

\* no store statement fails in SpecHold: the fault budget is spent from the start
InitHold ==
    /\ products = [p \in ProductIds |-> [stock |-> StartStock]]
    /\ clients  = InitClients
    /\ sales    = {}
    /\ calls    = [k \in Calls |-> IdleCall]
    /\ faults   = MaxFaults
    /\ InitRest

SpecHold == InitHold /\ [][NextHold]_vars

----------------------------------------------------------------------------
(* SellerView of one terminal: the product tiles and the cart buttons with
   their `disabled` guards and the payment dialog with handleCheckout.  The terminal state carries, besides the fields of IdleUi,
   the product list as loaded (id -> stock) and showPaymentModal.  The payment
   dialog is a full-screen overlay: while it is open the tiles and the cart
   buttons under it cannot be pressed.  loadData is one step here. *)

CartUi == [cart |-> <<>>, suspendedSales |-> [n \in {} |-> <<>>],
           pc |-> "idle", arg |-> [id |-> 0, items |-> <<>>], lastId |-> 0,
           products |-> [p \in {} |-> 0], showPaymentModal |-> FALSE]

CartTerminals == {"t1"}

LoadedStock == [p \in DOMAIN products |-> products[p].stock]

\* loadData(): setProducts(p), setSuspendedSales(susp)
LoadAll(t) ==
    /\ ui[t].products # LoadedStock \/ ui[t].suspendedSales # suspended
    /\ ui' = [ui EXCEPT ![t].products = LoadedStock, ![t].suspendedSales = suspended]
    /\ UNCHANGED <<coordVars, reader, suspended, clock, delivered>>

\* addToCart(product): the new entry is { ...product, quantity: 1 }
CartAfterAddProduct(cart, p, stock) ==
    IF InCart(cart, p)
    THEN [n \in DOMAIN cart |->
            IF cart[n].id = p THEN [cart[n] EXCEPT !.quantity = @ + 1] ELSE cart[n]]
    ELSE Append(cart, [id |-> p, quantity |-> 1, stock |-> stock])

\* the product tile: onClick addToCart(product), disabled={product.stock <= 0}
TileClick(t, p) ==
    /\ ~ui[t].showPaymentModal
    /\ p \in DOMAIN ui[t].products /\ ui[t].products[p] > 0
    /\ CartQty(ui[t].cart, p) < MaxCartQty
    /\ ui' = [ui EXCEPT ![t].cart = CartAfterAddProduct(@, p, ui[t].products[p])]
    /\ UNCHANGED <<coordVars, reader, suspended, clock, delivered>>

\* the plus button of a cart entry: onUpdateQty(item.id, 1),
\* disabled={item.quantity >= item.stock}
PlusClick(t, n) ==
    /\ ~ui[t].showPaymentModal
    /\ n \in DOMAIN ui[t].cart
    /\ ui[t].cart[n].quantity < ui[t].cart[n].stock
    /\ ui[t].cart[n].quantity < MaxCartQty
    /\ ui' = [ui EXCEPT ![t].cart = CartAfterUpdate(@, ui[t].cart[n].id, 1)]
    /\ UNCHANGED <<coordVars, reader, suspended, clock, delivered>>

\* the minus button of a cart entry: onUpdateQty(item.id, -1)
MinusClick(t, n) ==
    /\ ~ui[t].showPaymentModal
    /\ n \in DOMAIN ui[t].cart
    /\ ui' = [ui EXCEPT ![t].cart = CartAfterUpdate(@, ui[t].cart[n].id, -1)]
    /\ UNCHANGED <<coordVars, reader, suspended, clock, delivered>>

\* "Cobrar": onCheckout={() => setShowPaymentModal(true)}, disabled={cart.length === 0}
OpenPayment(t) ==
    /\ ~ui[t].showPaymentModal /\ ui[t].cart # <<>>
    /\ ui' = [ui EXCEPT ![t].showPaymentModal = TRUE]
    /\ UNCHANGED <<coordVars, reader, suspended, clock, delivered>>

\* "Cancelar" of the payment dialog
ClosePayment(t) ==
    /\ ui[t].showPaymentModal
    /\ ui' = [ui EXCEPT ![t].showPaymentModal = FALSE]
    /\ UNCHANGED <<coordVars, reader, suspended, clock, delivered>>

\* saleItems = cart.map(item => ({ productId, quantity, unitPrice, subtotal }))
SaleItemsOf(cart) ==
    [n \in DOMAIN cart |->
        [productId |-> cart[n].id, quantity |-> cart[n].quantity,
         unitPrice |-> PriceRetail(cart[n].id),
         subtotal |-> PriceRetail(cart[n].id) * cart[n].quantity]]

\* handleCheckout up to `await db.createRetailSale(saleItems, user.id)`: the
\* call takes slot k, arg.id remembers the slot
HandleCheckout(t, k) ==
    /\ ui[t].pc = "idle" /\ ui[t].showPaymentModal
    /\ CanStart(k)
    /\ LET items == SaleItemsOf(ui[t].cart) IN
       calls' = [calls EXCEPT ![k] =
                   [IdleCall EXCEPT !.op = "retail", !.pc = "insert",
                                    !.saleId = generateId(k), !.items = items,
                                    !.totalAmount = SumSubtotals(items)]]
    /\ ui' = [ui EXCEPT ![t].pc = "checkout", ![t].arg = [id |-> k, items |-> <<>>]]
    /\ UNCHANGED <<products, clients, sales, faults, reader, suspended, clock, delivered>>

\* handleCheckout wrapped in try/finally, emptying the cart whatever the call
\* did: the variant that C29_CheckoutKeepsCartOnThrow must reject
CheckoutReturnAlways(t) ==
    /\ ui[t].pc = "checkout" /\ calls[ui[t].arg.id].pc = "done"
    /\ ui' = [ui EXCEPT ![t].cart = <<>>, ![t].showPaymentModal = FALSE,
                        ![t].pc = "reload"]
    /\ UNCHANGED <<coordVars, reader, suspended, clock, delivered>>

\* handleCheckout after the await: when createRetailSale threw the handler ends
\* there; else setCart([]), setShowPaymentModal(false), await loadData()
CheckoutReturn(t) ==
    /\ ui[t].pc = "checkout" /\ calls[ui[t].arg.id].pc = "done"
    /\ ui' = IF calls[ui[t].arg.id].outcome = "ok"
             THEN [ui EXCEPT ![t].cart = <<>>, ![t].showPaymentModal = FALSE,
                             ![t].pc = "reload"]
             ELSE [ui EXCEPT ![t].pc = "idle", ![t].arg = IdleUi.arg]
    /\ UNCHANGED <<coordVars, reader, suspended, clock, delivered>>

\* await loadData() that ends handleCheckout, handleSuspendSale, handleResumeSale
\* and the discard
ReloadAll(t) ==
    /\ ui[t].pc = "reload"
    /\ ui' = [ui EXCEPT ![t].pc = "idle", ![t].arg = IdleUi.arg,
                        ![t].products = LoadedStock, ![t].suspendedSales = suspended]
    /\ UNCHANGED <<coordVars, reader, suspended, clock, delivered>>

InitCart ==
    /\ products  = [p \in ProductIds |-> [stock |-> StartStock]]
    /\ clients   = InitClients
    /\ sales     = {}
    /\ calls     = [k \in Calls |-> IdleCall]
    /\ faults    = 0
    /\ reader    = IdleReader
    /\ suspended = [n \in {} |-> <<>>]
    /\ ui        = [t \in Terminals |-> CartUi]
    /\ clock     = 1
    /\ delivered = [n \in 1..MaxClock |-> 0]

NextCart ==
    \/ \E t \in CartTerminals : LoadAll(t)
    \/ \E t \in CartTerminals, p \in ProductIds : TileClick(t, p)
    \/ \E t \in CartTerminals, n \in 1..Cardinality(ProductIds) : PlusClick(t, n)
    \/ \E t \in CartTerminals, n \in 1..Cardinality(ProductIds) : MinusClick(t, n)
    \/ \E t \in CartTerminals : OpenPayment(t)
    \/ \E t \in CartTerminals : ClosePayment(t)
    \/ \E t \in CartTerminals, k \in DOMAIN calls : HandleCheckout(t, k)
    \/ \E k \in DOMAIN calls : InsertSale(k)
    \/ \E k \in DOMAIN calls : StockSelect(k)
    \/ \E k \in DOMAIN calls : StockUpdate(k)
    \/ \E t \in CartTerminals : CheckoutReturn(t)
    \/ \E t \in CartTerminals : ReloadAll(t)

SpecCart == InitCart /\ [][NextCart]_vars

(* The same terminal selling product p1 only, with the held sales. *)
NextSuspend ==
    \/ \E t \in CartTerminals : LoadAll(t)
    \/ \E t \in CartTerminals, p \in HoldProducts : TileClick(t, p)
    \/ \E t \in CartTerminals, n \in 1..Cardinality(HoldProducts) : PlusClick(t, n)
    \/ \E t \in CartTerminals, n \in 1..Cardinality(HoldProducts) : MinusClick(t, n)
    \/ \E t \in CartTerminals : OpenPayment(t)
    \/ \E t \in CartTerminals : ClosePayment(t)
    \/ \E t \in CartTerminals, k \in DOMAIN calls : HandleCheckout(t, k)
    \/ \E k \in DOMAIN calls : InsertSale(k)
    \/ \E k \in DOMAIN calls : StockSelect(k)
    \/ \E k \in DOMAIN calls : StockUpdate(k)
    \/ \E t \in CartTerminals : CheckoutReturn(t)
    \/ \E t \in CartTerminals : ReloadAll(t)
    \/ Tick
    \/ \E t \in CartTerminals : ~ui[t].showPaymentModal /\ SuspendStart(t)
    \/ \E t \in CartTerminals : SuspendInsert(t)
    \/ \E t \in CartTerminals, id \in 1..MaxClock :
          ~ui[t].showPaymentModal /\ ResumeStart(t, id)
    \/ \E t \in CartTerminals, id \in 1..MaxClock :
          ~ui[t].showPaymentModal /\ DiscardStart(t, id)
    \/ \E t \in CartTerminals : RemoveSuspended(t)

SpecSuspend == InitCart /\ [][NextSuspend]_vars

----------------------------------------------------------------------------
(* One sale call of a seller terminal while the admin dashboard loads its data *)

NextRead ==
    \/ \E qs \in Quantities : StartRetail(1, qs)
    \/ \E cid \in ClientIds, qs \in Quantities : StartDispatch(1, cid, qs)
    \/ \E k \in DOMAIN calls : ClientSelect(k)
    \/ \E k \in DOMAIN calls : InsertSale(k)
    \/ \E k \in DOMAIN calls : DebtUpdate(k)
    \/ \E k \in DOMAIN calls : StockSelect(k)
    \/ \E k \in DOMAIN calls : StockUpdate(k)
    \/ ReadProducts
    \/ ReadClients
    \/ ReadSales

SpecRead == Init /\ [][NextRead]_vars

----------------------------------------------------------------------------
(* Vocabulary of the properties *)

IsSaleCall(k) == calls[k].op \in {"retail", "dispatch"}
Done(k)       == calls[k].pc = "done"
AllDone       == \A k \in DOMAIN calls : Done(k)
Persisted(k)  == \E s \in sales : s.id = calls[k].saleId

\* every side effect of the sale call k reached the store / none of them did
AllApplied(k) ==
    /\ calls[k].decs = Len(calls[k].items)
    /\ calls[k].op = "dispatch" => calls[k].charged
NoneApplied(k) == calls[k].decs = 0 /\ ~calls[k].charged

\* no store statement failed and no product was deleted
Undisturbed == faults = 0 /\ DOMAIN products = ProductIds

\* sum of the quantities of the persisted sale items that reference product p
RECURSIVE QtyOf(_, _)
QtyOf(items, p) ==
    IF items = <<>> THEN 0
    ELSE (IF items[1].productId = p THEN items[1].quantity ELSE 0)
         + QtyOf(Tail(items), p)

RECURSIVE SoldQty(_, _)
SoldQty(S, p) ==
    IF S = {} THEN 0
    ELSE LET s == CHOOSE x \in S : TRUE
         IN  QtyOf(s.items, p) + SoldQty(S \ {s}, p)

----------------------------------------------------------------------------
(* C1: when a createRetailSale / createDispatchSale call has finished, either
   its sale row is persisted together with its debt increment and the stock
   decrement of every item, or none of the three is in the store. *)
C1_AllOrNothing ==
    \A k \in DOMAIN calls :
        (IsSaleCall(k) /\ Done(k)) =>
            \/ Persisted(k) /\ AllApplied(k)
            \/ ~Persisted(k) /\ NoneApplied(k)

(* C2: the stock of every product is >= 0 in every reachable state. *)
C2_StockNeverNegative ==
    \A p \in DOMAIN products : products[p].stock >= 0

(* C3: once all calls have completed, with no failed statement and no product
   deleted, the stock of every product equals its initial stock minus the
   quantities of all persisted sale items that reference it. *)
C3_DecrementExactlyOnce ==
    (AllDone /\ Undisturbed) =>
        \A p \in ProductIds : products[p].stock = StartStock - SoldQty(sales, p)

\* debt after the charge or payment of call k is applied to `debt`
ApplyToDebt(debt, k) ==
    IF calls[k].op = "dispatch" THEN debt + calls[k].totalAmount
                                ELSE Max(0, debt - calls[k].amount)

\* every debt the calls of S can leave when applied one after another, in any order
RECURSIVE SequentialDebts(_, _)
SequentialDebts(debt, S) ==
    IF S = {} THEN {debt}
    ELSE UNION { SequentialDebts(ApplyToDebt(debt, k), S \ {k}) : k \in S }

DebtCallsOn(c) ==
    { k \in DOMAIN calls : /\ calls[k].op \in {"dispatch", "payment"}
                           /\ calls[k].clientId = c
                           /\ calls[k].outcome = "ok" }

(* C4: once all calls have completed without a failed statement, the debt of
   every client is what the completed charges and payments on that client give
   when applied one after another in some order (none is lost). *)
C4_DebtSerializable ==
    (AllDone /\ faults = 0) =>
        \A c \in ClientIds :
            clients[c].debt \in SequentialDebts(InitialDebt(c), DebtCallsOn(c))

(* C5: a reader that has seen the sale row of a call (its getSales was served
   first, no statement failed) also sees the effects of that call in what it
   reads afterwards: the stock of every product decremented by the sale's
   quantities and, for a dispatch sale, the client's debt charged. *)
C5_NoHalfAppliedRead ==
    ( /\ Len(reader.order) = Cardinality(Tables) /\ reader.order[1] = "sales"
      /\ faults = 0
      /\ IsSaleCall(1) /\ calls[1].saleId \in reader.sales )
    => /\ \A p \in ProductIds :
             reader.stock[p] = StartStock - QtyOf(calls[1].items, p)
       /\ calls[1].op = "dispatch" =>
             reader.debt[calls[1].clientId] =
                 InitialDebt(calls[1].clientId) + calls[1].totalAmount

(* C6: in the oversell scenario (RaceCalls concurrent sales of MaxQty units of
   a product with RaceStock units) the calls that succeed never sell more than
   the stock, every other call ends with Conflict and persists no sale, and the
   stock is decremented for the successful calls only. *)
C6_OversellRejected ==
    AllDone =>
        LET ok == { k \in DOMAIN calls : calls[k].outcome = "ok" } IN
        /\ Cardinality(ok) * MaxQty <= RaceStock
        /\ \A k \in DOMAIN calls \ ok :
               calls[k].outcome = "Conflict" /\ ~Persisted(k)
        /\ products["p1"].stock = RaceStock - Cardinality(ok) * MaxQty

(* C7: the debt of every client is >= 0 in every reachable state. *)
C7_DebtNeverNegative ==
    \A c \in DOMAIN clients : clients[c].debt >= 0

\* C7 witness: a payment larger than the debt it read has been applied, and a
\* dispatch charge has been applied as well
C7_Witness ==
    /\ \E k \in DOMAIN calls :
          /\ calls[k].op = "payment" /\ calls[k].outcome = "ok"
          /\ calls[k].amount > calls[k].client.debt
          /\ clients[calls[k].clientId].debt = 0
    /\ \E k \in DOMAIN calls :
          calls[k].op = "dispatch" /\ Done(k) /\ calls[k].charged

(* C8: when a sale call is submitted a second time with the same arguments and
   both submissions have completed (nothing else running, no failure), the
   ledger holds one sale for the pair, the stock of every product is
   decremented once and, for a dispatch sale, the debt is charged once. *)
C8_RetryIdempotent ==
    \A k \in DOMAIN calls :
        LET j == calls[k].retryOf IN
        ( /\ j # 0 /\ Done(k) /\ Undisturbed /\ calls[k].items # <<>>
          /\ calls[k].outcome = "ok" /\ calls[j].outcome = "ok"
          /\ \A m \in DOMAIN calls \ {j, k} : calls[m].op = "idle" )
        => /\ Cardinality({ s \in sales : s.id \in {calls[j].saleId, calls[k].saleId} }) = 1
           /\ \A p \in ProductIds :
                 products[p].stock = StartStock - QtyOf(calls[k].items, p)
           /\ calls[k].op = "dispatch" =>
                 clients[calls[k].clientId].debt =
                     InitialDebt(calls[k].clientId) + calls[k].totalAmount

(* C9: the items of a held sale are delivered to at most one cart: a second
   resume of the same held sale, concurrent or later, does not receive them. *)
C9_ResumeDeliversOnce ==
    \A id \in DOMAIN delivered : delivered[id] <= 1

\* an item list the preconditions of the coordinator reject
InvalidItems(items) ==
    \/ items = <<>>
    \/ \E n \in DOMAIN items : items[n].quantity <= 0

(* C10: a sale call whose item list is empty or holds a non-positive quantity
   ends with ValidationError and persists no sale. *)
C10_InvalidItemsRejected ==
    \A k \in DOMAIN calls :
        (IsSaleCall(k) /\ Done(k) /\ InvalidItems(calls[k].items)) =>
            /\ calls[k].outcome = "ValidationError"
            /\ ~Persisted(k)

(* C11: a sale call that found one of its products missing from the catalog
   (no statement failed; the row was deleted before the decrement reached it)
   ends with NotFound and nothing of it is in the stores: no sale row, no
   stock decrement, no debt charge. *)
C11_MissingProductAborts ==
    \A k \in DOMAIN calls :
        ( /\ IsSaleCall(k) /\ Done(k) /\ faults = 0
          /\ calls[k].decs < Len(calls[k].items) )
        => /\ calls[k].outcome = "NotFound"
           /\ ~Persisted(k)
           /\ NoneApplied(k)

\* the error each operation throws when its select finds no client row
NotFoundOf(op) == IF op = "dispatch" THEN "threw: Cliente no existe"
                                     ELSE "threw: Cliente no encontrado"

(* C12: every step of a createDispatchSale or registerClientPayment call whose
   clientId matches no client leaves the products, the clients and the sales
   unchanged, and the call ends with the client-not-found error. *)
C12_UnknownClientRejected ==
    [][\A k \in DOMAIN calls :
          ( /\ calls'[k] # calls[k]
            /\ calls'[k].op \in {"dispatch", "payment"}
            /\ calls'[k].clientId \notin DOMAIN clients )
          => /\ UNCHANGED <<products, clients, sales>>
             /\ calls'[k].pc = "done" => calls'[k].outcome = NotFoundOf(calls'[k].op)]_vars

\* C12 witness: a dispatch sale and a payment on the unknown client have both
\* ended with their not-found error, the dispatch sale with items to sell
C12_Witness ==
    /\ \E k \in DOMAIN calls :
          /\ calls[k].op = "dispatch" /\ calls[k].clientId = UnknownClient
          /\ calls[k].items # <<>>
          /\ calls[k].outcome = "threw: Cliente no existe"
    /\ \E k \in DOMAIN calls :
          /\ calls[k].op = "payment" /\ calls[k].clientId = UnknownClient
          /\ calls[k].outcome = "threw: Cliente no encontrado"
    /\ sales = {} /\ clients = InitClients
    /\ \A p \in ProductIds : products[p].stock = StartStock

(* C13: a registerClientPayment call whose amount is zero or negative ends
   with ValidationError, and no step of it changes a client's debt (no store
   statement failing). *)
C13_NonPositiveAmountRejected ==
    [][\A k \in DOMAIN calls :
          ( /\ calls'[k] # calls[k] /\ faults' = 0
            /\ calls'[k].op = "payment" /\ calls'[k].amount <= 0 )
          => /\ clients' = clients
             /\ calls'[k].pc = "done" => calls'[k].outcome = "ValidationError"]_vars

(* C14: a createRetailSale / createDispatchSale call completes as a success
   only if none of its store statements was lost: the debt update and the
   stock update of every item reached their row. *)
C14_FailuresReported ==
    \A k \in DOMAIN calls :
        (IsSaleCall(k) /\ Done(k) /\ calls[k].outcome = "ok") => AllApplied(k)

(* C15: every sale of the ledger has totalAmount equal to the sum of the
   subtotals of its items, after creation and after every amendment. *)
C15_TotalIsSumOfSubtotals ==
    \A s \in sales : s.totalAmount = SumSubtotals(s.items)

\* the row of the ledger with the id of the sale that edit session k selected
RowOf(k) == CHOOSE s \in sales : s.id = calls[k].saleId

\* C15 witness: an edit session has saved a sale with fewer units than it had,
\* some items left, and the ledger holds the lowered total
C15_Witness ==
    \E k \in DOMAIN calls :
        /\ calls[k].op = "amend" /\ calls[k].outcome = "ok"
        /\ RowOf(k).items # <<>>
        /\ RowOf(k).items # calls[k].sel.items
        /\ RowOf(k).totalAmount < calls[k].sel.totalAmount

(* C17: the step in which saveEditedSale writes the sale leaves the stock of
   every product, the debt of every client, the suspended sales and every other
   sale of the ledger unchanged; of the sale with the given id only items and
   totalAmount may differ afterwards. *)
C17_AmendFrame ==
    [][\A k \in DOMAIN calls :
          (calls[k].op = "amend" /\ calls[k].pc = "editing" /\ calls'[k].pc = "done")
          => LET id == calls[k].saleId IN
             /\ UNCHANGED <<products, clients, suspended>>
             /\ { s \in sales' : s.id # id } = { s \in sales : s.id # id }
             /\ { [s EXCEPT !.items = <<>>, !.totalAmount = 0] : s \in sales' }
                  = { [s EXCEPT !.items = <<>>, !.totalAmount = 0] : s \in sales }]_vars

\* C17 witness: an edit session has saved a lower total for a dispatch sale
\* while another sale is in the ledger; debt and stock are those the sales
\* left at creation
C17_Witness ==
    \E k \in DOMAIN calls :
        /\ calls[k].op = "amend" /\ calls[k].outcome = "ok"
        /\ calls[k].sel.type = "dispatch"
        /\ RowOf(k).totalAmount < calls[k].sel.totalAmount
        /\ Cardinality(sales) = 2
        /\ \A j \in DOMAIN calls : Done(j)
        /\ faults = 0
        /\ clients["c1"].debt > InitialDebt("c1") + RowOf(k).totalAmount

(* C16: the step in which handleSaveClient upserts a client leaves the stored
   debt of every client as it was; only the charge of a dispatch sale and a
   payment change a debt. *)
C16_DebtOnlyByCoordinator ==
    [][\A k \in DOMAIN calls :
          (calls[k].op = "saveClient" /\ calls[k].pc = "form" /\ calls'[k].pc = "done")
          => \A c \in DOMAIN clients : clients'[c].debt = clients[c].debt]_vars

----------------------------------------------------------------------------
(* Vocabulary of the sequential properties: in SpecSeq the calls run in slot
   order, so the state a call starts from is the result of the calls in the
   slots below it. *)

\* debt of client c after the calls of slots 1..j, each applied in full
RECURSIVE SeqDebt(_, _)
SeqDebt(c, j) ==
    IF j = 0 THEN InitialDebt(c)
    ELSE LET before == SeqDebt(c, j - 1) IN
         IF calls[j].clientId # c THEN before
         ELSE IF calls[j].op = "dispatch" THEN before + SumSubtotals(calls[j].items)
         ELSE IF calls[j].op = "payment" THEN Max(0, before - calls[j].amount)
         ELSE before

\* stock of product p after the calls of slots 1..j, each applied in full
RECURSIVE SeqStock(_, _)
SeqStock(p, j) ==
    IF j = 0 THEN StartStock
    ELSE SeqStock(p, j - 1) - (IF IsSaleCall(j) THEN QtyOf(calls[j].items, p) ELSE 0)

\* ids of the sales persisted by the calls of slots 1..j
SeqSaleIds(j) == { calls[i].saleId : i \in { i \in 1..j : IsSaleCall(i) } }

\* call k has completed and is the latest call issued; no statement failed
Latest(k) ==
    /\ Done(k) /\ faults = 0
    /\ \A j \in DOMAIN calls : j > k => calls[j].op = "idle"

\* the sales of the ledger that carry the id of call k
SalesOf(k) == { s \in sales : s.id = calls[k].saleId }

(* C18: a createDispatchSale(C, items) that ran alone to completion leaves
   exactly one dispatch sale of its id in the ledger, carrying clientId C, items
   and their total, besides the sales there before; debt(C) is the debt before
   plus the sum of the item subtotals, and every other debt is as before. *)
C18_DispatchEffect ==
    \A k \in DOMAIN calls :
        (calls[k].op = "dispatch" /\ Latest(k)) =>
            LET C     == calls[k].clientId
                total == SumSubtotals(calls[k].items)
            IN  /\ Cardinality(SalesOf(k)) = 1
                /\ \A s \in SalesOf(k) :
                      /\ s.type = "dispatch" /\ s.clientId = C
                      /\ s.items = calls[k].items /\ s.totalAmount = total
                /\ { s.id : s \in sales } = SeqSaleIds(k - 1) \cup {calls[k].saleId}
                /\ clients[C].debt = SeqDebt(C, k - 1) + total
                /\ \A c \in ClientIds \ {C} : clients[c].debt = SeqDebt(c, k - 1)

\* C18 witness: a dispatch sale with a total above zero has completed on a
\* client whose debt an earlier call had changed
C18_Witness ==
    \E k \in DOMAIN calls :
        /\ calls[k].op = "dispatch" /\ Latest(k) /\ k > 1
        /\ calls[k].totalAmount > 0
        /\ SeqDebt(calls[k].clientId, k - 1) # InitialDebt(calls[k].clientId)
        /\ clients[calls[k].clientId].debt
              = SeqDebt(calls[k].clientId, k - 1) + calls[k].totalAmount

(* C19: a createRetailSale(items) that ran alone to completion, all products
   existing, leaves exactly one retail sale of its id with those items in the
   ledger besides the sales there before; the stock of every product is the
   stock before minus the quantities of the items that reference it, and every
   debt is as before. *)
C19_RetailEffect ==
    \A k \in DOMAIN calls :
        (calls[k].op = "retail" /\ Latest(k)) =>
            /\ Cardinality(SalesOf(k)) = 1
            /\ \A s \in SalesOf(k) :
                  s.type = "pos" /\ s.clientId = "" /\ s.items = calls[k].items
            /\ { s.id : s \in sales } = SeqSaleIds(k - 1) \cup {calls[k].saleId}
            /\ \A p \in ProductIds :
                  products[p].stock = SeqStock(p, k - 1) - QtyOf(calls[k].items, p)
            /\ \A c \in ClientIds : clients[c].debt = SeqDebt(c, k - 1)

\* C19 witness: a retail sale with two items that reference the same product
\* has completed after an earlier sale of that product
C19_Witness ==
    \E k \in DOMAIN calls :
        /\ calls[k].op = "retail" /\ Latest(k) /\ k > 1
        /\ Len(calls[k].items) = 2
        /\ calls[k].items[1].productId = calls[k].items[2].productId
        /\ LET p == calls[k].items[1].productId IN
           /\ SeqStock(p, k - 1) < StartStock
           /\ products[p].stock
                 = SeqStock(p, k - 1) - calls[k].items[1].quantity
                                      - calls[k].items[2].quantity

(* C20: a registerClientPayment(C, amount) with amount > 0 that ran alone to
   completion leaves debt(C) = max(0, debt before - amount), every other debt,
   the stock of every product and the sales as before. *)
C20_PaymentEffect ==
    \A k \in DOMAIN calls :
        (calls[k].op = "payment" /\ calls[k].amount > 0 /\ Latest(k)) =>
            LET C == calls[k].clientId IN
            /\ clients[C].debt = Max(0, SeqDebt(C, k - 1) - calls[k].amount)
            /\ \A c \in ClientIds \ {C} : clients[c].debt = SeqDebt(c, k - 1)
            /\ \A p \in ProductIds : products[p].stock = SeqStock(p, k - 1)
            /\ { s.id : s \in sales } = SeqSaleIds(k - 1)

\* C20 witness: a payment that left part of the debt, then a payment above the
\* rest that left debt 0
C20_Witness ==
    \E k \in DOMAIN calls :
        /\ calls[k].op = "payment" /\ Latest(k) /\ k > 1
        /\ calls[k - 1].op = "payment" /\ calls[k - 1].clientId = calls[k].clientId
        /\ SeqDebt(calls[k].clientId, k - 1) > 0
        /\ SeqDebt(calls[k].clientId, k - 1) < InitialDebt(calls[k].clientId)
        /\ calls[k].amount > SeqDebt(calls[k].clientId, k - 1)
        /\ clients[calls[k].clientId].debt = 0

(* C22: two holds in progress at the same time carry different ids. *)
C22_HoldIdsUnique ==
    \A t \in Terminals, u \in Terminals :
        (t # u /\ ui[t].pc = "suspendInsert" /\ ui[u].pc = "suspendInsert")
        => ui[t].arg.id # ui[u].arg.id

(* C24: every sale of the ledger has at least one item and every item of it a
   quantity above zero, also after an edit session has saved it. *)
C24_SaleItemsValid ==
    \A s \in sales :
        /\ s.items # <<>>
        /\ \A n \in DOMAIN s.items : s.items[n].quantity > 0

\* client.businessName || client.name of the client row as call k read it
PreferredName(k) ==
    IF calls[k].client.businessName # "" THEN calls[k].client.businessName
                                         ELSE calls[k].client.name

(* C25: a dispatch sale enters the ledger with clientName equal to the business
   name its call read from the client row, or to the contact name when the
   business name is empty; no later step, a rename of the client included,
   changes the clientName of a sale of the ledger. *)
C25_ClientNameSnapshot ==
    [][/\ \A s \in sales' \ sales :
             s.type = "dispatch" =>
                 \E k \in DOMAIN calls :
                     /\ calls[k].saleId = s.id /\ calls[k].op = "dispatch"
                     /\ calls[k].clientId = s.clientId
                     /\ s.clientName = PreferredName(k)
       /\ \A s \in sales : s \in sales']_vars

\* C25 witness: the sale of a client without business name carries the contact
\* name, and the client has been given a business name since
C25_Witness ==
    \E s \in sales :
        /\ s.type = "dispatch" /\ s.clientId = "c2" /\ s.clientName = "c2"
        /\ clients["c2"].businessName = "B2"
        /\ \E k \in DOMAIN calls : calls[k].op = "saveClient" /\ calls[k].outcome = "ok"

(* C27: a step of a sale call changes a stock or a debt only when the sale row
   of that call is in the ledger, and the step in which the call throws the
   error of the insert leaves sales, stock and debts as they were, nothing of
   the call having been applied. *)
C27_InsertPrecedesEffects ==
    [][\A k \in DOMAIN calls :
          (calls'[k] # calls[k] /\ calls'[k].op \in {"retail", "dispatch"})
          => /\ (products' # products \/ clients' # clients) => Persisted(k)
             /\ (calls[k].pc = "insert" /\ calls'[k].outcome = "threw: saleError")
                   => /\ UNCHANGED <<products, clients, sales>>
                      /\ ~Persisted(k) /\ NoneApplied(k)]_vars

\* C27 witness: one call threw the error of its insert, nothing of it applied,
\* and another call charged the debt and decremented stock after its insert
C27_Witness ==
    /\ \E k \in DOMAIN calls :
          /\ calls[k].outcome = "threw: saleError" /\ calls[k].items # <<>>
          /\ ~Persisted(k) /\ NoneApplied(k)
    /\ \E k \in DOMAIN calls :
          /\ calls[k].op = "dispatch" /\ calls[k].outcome = "ok"
          /\ Persisted(k) /\ calls[k].charged /\ calls[k].decs > 0

(* C26: a press of a product tile or of a plus button never raises the quantity
   of a cart entry above the stock of its product as the terminal has it
   loaded. *)
C26_CartWithinLoadedStock ==
    [][\A t \in CartTerminals :
          \A n \in DOMAIN ui'[t].cart :
              LET item == ui'[t].cart[n] IN
              (item.quantity > CartQty(ui[t].cart, item.id))
                  => item.quantity <= ui[t].products[item.id]]_vars

(* C29: when handleCheckout comes back from createRetailSale, it changes the
   cart only if the call returned without throwing; when the call threw, the
   cart and the open payment dialog stay as they were and no sale row of the
   call is in the ledger. *)
C29_CheckoutKeepsCartOnThrow ==
    [][\A t \in CartTerminals :
          (ui[t].pc = "checkout" /\ ui'[t].pc # "checkout")
              => LET k == ui[t].arg.id IN
                 /\ ui'[t].cart # ui[t].cart => calls[k].outcome = "ok"
                 /\ calls[k].outcome # "ok"
                       => /\ ui'[t].cart = ui[t].cart
                          /\ ui'[t].showPaymentModal = ui[t].showPaymentModal
                          /\ \A s \in sales' : s.id # calls[k].saleId]_vars

\* a checkout whose sale insert failed has returned: the cart still holds the
\* submitted items, the dialog is open, the ledger is empty
C29_Witness ==
    \E t \in CartTerminals, k \in DOMAIN calls :
        /\ ui[t].pc = "idle" /\ ui[t].showPaymentModal
        /\ calls[k].op = "retail" /\ calls[k].outcome = "threw: saleError"
        /\ ui[t].cart # <<>> /\ SaleItemsOf(ui[t].cart) = calls[k].items
        /\ sales = {}

(* C30: the cart of a terminal holds at most one entry per product id and
   every entry has quantity >= 1, and no retail call submitted by
   handleCheckout carries an item of non-positive quantity. *)
C30_CartEntriesDistinctPositive ==
    /\ \A t \in CartTerminals :
          /\ \A n \in DOMAIN ui[t].cart : ui[t].cart[n].quantity >= 1
          /\ \A n, m \in DOMAIN ui[t].cart :
                ui[t].cart[n].id = ui[t].cart[m].id => n = m
    /\ \A k \in DOMAIN calls :
          calls[k].op = "retail"
              => \A i \in DOMAIN calls[k].items : calls[k].items[i].quantity > 0

\* a checkout of two entries was submitted; since then the first entry was
\* taken out of the cart with the minus button and the second one raised
C30_Witness ==
    \E t \in CartTerminals, k \in DOMAIN calls :
        /\ calls[k].op = "retail" /\ Len(calls[k].items) = 2
        /\ calls[k].items[1].quantity = 1
        /\ Len(ui[t].cart) = 1
        /\ ui[t].cart[1].id = calls[k].items[2].productId
        /\ ui[t].cart[1].quantity > calls[k].items[2].quantity

(* C21: resuming a held sale puts exactly the items of the stored record into
   the active cart; when the remove of a resume or of a discard has run, the
   id is no longer in the suspended-sale store; and an id that enters the
   store is not one whose items were handed out by a resume before. *)
C21_ResumeReturnsAndRemoves ==
    [][\A t \in CartTerminals :
          /\ (ui[t].pc = "idle" /\ ui'[t].pc = "remove" /\ ui'[t].cart # ui[t].cart)
                => /\ ui'[t].arg.id \in DOMAIN suspended
                   /\ ui'[t].cart = suspended[ui'[t].arg.id].items
          /\ (ui[t].pc = "remove" /\ ui'[t].pc # "remove")
                => ui[t].arg.id \notin DOMAIN suspended'
          /\ \A id \in DOMAIN suspended' \ DOMAIN suspended : delivered[id] = 0]_vars

(* C23: every step of a hold, a resume or a discard (from the press of the
   button to the reload that ends the handler) leaves the stock of every
   product, every client row and the set of sales as they were; stock changes
   only in a step of a retail call whose sale row is in the ledger. *)
C23_HoldFrame ==
    [][/\ \A t \in CartTerminals :
            (ui'[t].pc # ui[t].pc /\ ui[t].pc # "checkout" /\ ui'[t].pc # "checkout")
                => /\ products' = products
                   /\ clients' = clients
                   /\ sales' = sales
       /\ suspended' # suspended
            => products' = products /\ clients' = clients /\ sales' = sales
       /\ products' # products
            => \E k \in DOMAIN calls :
                  /\ calls[k].op = "retail" /\ calls'[k] # calls[k]
                  /\ \E s \in sales : s.id = calls[k].saleId]_vars

\* a sale was held, resumed into the cart and its record removed, and no stock
\* has moved and no sale exists
C23_Witness ==
    \E t \in CartTerminals, id \in 1..MaxClock :
        /\ delivered[id] > 0 /\ id \notin DOMAIN suspended
        /\ ui[t].pc = "idle" /\ ui[t].cart # <<>>
        /\ \A p \in DOMAIN products : products[p].stock = StartStock
        /\ sales = {}

(* C28: when handleSuspendSale empties the active cart, the suspended-sale
   store holds a record under the id of the hold with exactly the items the
   cart had when the seller pressed the button. *)
C28_HoldStoredBeforeCartEmptied ==
    [][\A t \in CartTerminals :
          (ui[t].pc = "suspendInsert" /\ ui'[t].pc # "suspendInsert"
             /\ ui'[t].cart = <<>>)
              => /\ ui[t].arg.id \in DOMAIN suspended'
                 /\ suspended'[ui[t].arg.id].items = ui[t].arg.items]_vars

====
